---- MODULE Spec2Model ----
(***************************************************************************)
(* Training core of stable_baselines3/sac/sac.py: SAC with the optional    *)
(* CQL regulariser and the CRR pretraining loop.                           *)
(*                                                                         *)
(* Network parameters are abstracted to one integer per module (actor,     *)
(* critic, critic_target) and one integer per learned log-coefficient.     *)
(* Gradient buffers are the sets of losses whose backward pass has         *)
(* accumulated into a parameter since its last zero_grad.  An optimizer    *)
(* step may move every parameter of its own parameter list that holds a    *)
(* gradient to any value of the parameter's domain.                        *)
(*                                                                         *)
(* Real numbers are fixed point: coefficients are in millionths (Micro),   *)
(* log-space values are in millionths too.                                 *)
(***************************************************************************)
EXTENDS Integers, Sequences, FiniteSets, TLC

\* ------------------------------------------------------------------ bounds

\* largest target_update_interval explored
MaxInterval == 2
\* largest gradient_steps argument of one train / pretrain call
MaxSteps == 3

\* ------------------------------------------------------- program constants

\* self.log_alpha.clamp(-10.0, 2.0)
ClampLo == -10
ClampHi == 2

\* initial_alpha = 5.0, in millionths
InitialAlpha == 5000000

\* --------------------------------------------------------------- numerics

Micro == 1000000

\* Pairs << x, exp(x) >>, both in millionths and rounded, that th.exp and
\* th.log are read from: every whole x from -14 to 7, and log(v) for the
\* values v the model takes a logarithm of (initial_alpha = 5.0 and the
\* initial entropy coefficients 0.01, 0.1, 0.11, 1.1, 10, 11, 100, 101, 110
\* and 111 that the explored "auto_<float>" arguments spell).
ExpTab ==
  << <<-14000000, 1>>, <<-13000000, 2>>, <<-12000000, 6>>,
    <<-11000000, 17>>, <<-10000000, 45>>, <<-9000000, 123>>,
    <<-8000000, 335>>, <<-7000000, 912>>, <<-6000000, 2479>>,
    <<-5000000, 6738>>, <<-4605170, 10000>>, <<-4000000, 18316>>,
    <<-3000000, 49787>>, <<-2302585, 100000>>, <<-2207275, 110000>>,
    <<-2000000, 135335>>, <<-1000000, 367879>>, <<0, 1000000>>,
    <<95310, 1100000>>, <<1000000, 2718282>>, <<1609438, 5000000>>,
    <<2000000, 7389056>>, <<2302585, 10000000>>, <<2397895, 11000000>>,
    <<3000000, 20085537>>, <<4000000, 54598150>>, <<4605170, 100000000>>,
    <<4615121, 101000000>>, <<4700480, 110000000>>, <<4709530, 111000000>>,
    <<5000000, 148413159>>, <<6000000, 403428793>>,
    <<7000000, 1096633158>> >>

\* th.exp of x, both in millionths: exact on the table's entries, rounded
\* down to the entry below elsewhere; underflows to 0 and saturates above
\* the table, as the float does outside its range.
ExpMicro(x) ==
  IF x < ExpTab[1][1] THEN 0
  ELSE IF x > ExpTab[Len(ExpTab)][1] THEN 2147483647
  ELSE ExpTab[CHOOSE i \in 1..Len(ExpTab) :
                /\ ExpTab[i][1] <= x
                /\ i = Len(ExpTab) \/ ExpTab[i + 1][1] > x][2]

\* th.log of m, both in millionths: exact on the table's entries, rounded
\* down to the entry below elsewhere
LogFloor(m) ==
  IF m < ExpTab[1][2] THEN ExpTab[1][1] - Micro
  ELSE ExpTab[CHOOSE i \in 1..Len(ExpTab) :
                /\ ExpTab[i][2] <= m
                /\ i = Len(ExpTab) \/ ExpTab[i + 1][2] > m][1]

\* Tensor.clamp(lo, hi)
Clamp(x, lo, hi) == IF x < lo THEN lo ELSE IF x > hi THEN hi ELSE x

\* ------------------------------------------------------------- value sets

\* values of a network's parameters; Polyak averages fall between them
ParamValues == {0, 2}
TargetValues == {0, 1, 2}
\* tau as numerator and denominator: 1/2 and 1
Taus == { <<1, 2>>, <<1, 1>> }
\* critic ensemble sizes and off_policy_update_freq arguments explored
CriticCounts == {1, 2}
Freqs == {-1, 0, 1, 2}
\* values an optimizer step can leave in log_ent_coef and in log_alpha, in
\* millionths: log_alpha far outside the clamp's range as well
LogEntValues == {-Micro, 0}
LogAlphaValues == {-1000 * Micro, 0, 1000 * Micro}
EntCoefTensorValues == {200000}

ParamNames == {"actor", "critic", "critic_target", "log_ent_coef", "log_alpha"}

VARIABLES
  \* constructor arguments ent_coef and target_entropy, outcome of
  \* _setup_model, and the resolved self.target_entropy
  ent_coef_arg, target_entropy_arg, setup_result, target_entropy,
  \* configuration, fixed after construction
  target_update_interval, use_cql, n_critics, tau, auto_ent_coef,
  ent_coef_tensor,
  \* inputs of one bootstrap-target computation and its result q_backup
  target_in, q_backup,
  \* inputs of one advantage computation of pretrain and its results
  \* qf_buffer and qf_agg
  adv_in, qf_buffer, qf_agg,
  \* parameters: the policy's modules and the learned log-coefficients
  params,
  \* gradient buffers: parameter -> set of losses accumulated since zero_grad
  grads,
  \* replay_buffer.ent_coef
  replay_buffer_ent_coef,
  \* control: position, train's loop, pretrain's loop and arguments
  pc, caller, gradient_step, gradient_steps,
  p_step, p_steps, p_interval, p_freq,
  \* pretrain: the updates run at each loop index so far (history), and
  \* log_ent_coef as it was when the call began (history)
  p_index_ops, p_log_ent_coef,
  \* locals of the running gradient step
  ent_coef, clipped_alpha,
  \* outcome of the last call: "none" or "AssertionError"
  raised,
  \* observation of the run (history)
  step_ops, sync_log, since_sync, log_ent_coef_old, used_ent_coef

vars ==
  << ent_coef_arg, target_entropy_arg, setup_result, target_entropy,
     target_in, q_backup, adv_in, qf_buffer, qf_agg, target_update_interval, use_cql, n_critics, tau,
     auto_ent_coef, ent_coef_tensor, params, grads, replay_buffer_ent_coef, pc, caller,
     gradient_step, gradient_steps, p_step, p_steps, p_interval, p_freq,
     p_index_ops, p_log_ent_coef, ent_coef, clipped_alpha, raised, step_ops, sync_log, since_sync,
     log_ent_coef_old, used_ent_coef >>

setup_vars ==
  << ent_coef_arg, target_entropy_arg, setup_result, target_entropy >>

target_vars == << target_in, q_backup >>

advantage_vars == << adv_in, qf_buffer, qf_agg >>

\* what no step of train or pretrain writes
cfg_vars ==
  << setup_vars, target_vars, advantage_vars, target_update_interval,
     use_cql, n_critics, tau, auto_ent_coef, ent_coef_tensor >>

train_loop_vars == << gradient_step, gradient_steps >>

pretrain_vars ==
  << p_step, p_steps, p_interval, p_freq, p_index_ops, p_log_ent_coef >>

\* what a step inside pretrain's loop body leaves alone
pretrain_frame == << p_step, p_steps, p_interval, p_freq, p_log_ent_coef >>

\* locals of train and of one gradient step, dead once the call returns
local_vars ==
  << gradient_step, gradient_steps, ent_coef, clipped_alpha, step_ops,
     sync_log, log_ent_coef_old, used_ent_coef >>

\* ---------------------------------------------------------------- aliases

\* mutant of CriticTargetAlias: critic_target bound to the critic itself
CriticTargetAliasedToCritic == "critic"

\* _create_aliases: the module of the policy each trainer attribute names
ActorAlias == "actor"
CriticAlias == "critic"
CriticTargetAlias == "critic_target"

actor == params[ActorAlias]
critic == params[CriticAlias]
critic_target == params[CriticTargetAlias]
log_ent_coef == params["log_ent_coef"]
log_alpha == params["log_alpha"]

Values(p) ==
  CASE p = "actor" -> ParamValues
    [] p = "critic" -> ParamValues
    [] p = "critic_target" -> TargetValues
    [] p = "log_ent_coef" -> LogEntValues
    [] p = "log_alpha" -> LogAlphaValues

\* ------------------------------------------------- autograd and optimizers

\* leaf parameters a loss's backward pass accumulates into: every parameter
\* its forward pass used outside th.no_grad() and without detach()
EntCoefLossLeaves == {"log_ent_coef"}
ConservativeLossLeaves == {CriticAlias, "log_alpha"}
CriticLossLeaves(cql) ==
  {CriticAlias} \cup (IF cql THEN ConservativeLossLeaves ELSE {})
ActorLossLeaves == {ActorAlias, CriticAlias}
CRRCriticLossLeaves == {CriticAlias}
CRRActorLossLeaves == {ActorAlias}

\* parameter lists of the four optimizers
EntCoefOptimizerParams == {"log_ent_coef"}
AlphaOptimizerParams == {"log_alpha"}
ActorOptimizerParams == {ActorAlias}
CriticOptimizerParams == {CriticAlias}

\* mutant of ZeroGrad: the buffers are left as they are
ZeroGradMissing(g, ps) == g

\* optimizer.zero_grad()
ZeroGrad(g, ps) == [p \in ParamNames |-> IF p \in ps THEN {} ELSE g[p]]

\* loss.backward()
Backward(g, loss, leaves) ==
  [p \in ParamNames |-> IF p \in leaves THEN g[p] \cup {loss} ELSE g[p]]

\* optimizer.step(): the parameter stores it can leave behind
StepResults(th, g, ps) ==
  LET moved == { p \in ps : g[p] # {} }
      Choice(p) == IF p \in moved THEN Values(p) ELSE {th[p]}
  IN  { [p \in ParamNames |->
           CASE p = "actor" -> a
             [] p = "critic" -> c
             [] p = "critic_target" -> ct
             [] p = "log_ent_coef" -> le
             [] p = "log_alpha" -> la] :
        a \in Choice("actor"), c \in Choice("critic"),
        ct \in Choice("critic_target"), le \in Choice("log_ent_coef"),
        la \in Choice("log_alpha") }

\* common.utils.polyak_update for one parameter pair:
\* target <- tau * source + (1 - tau) * target, rounded down to the grid
PolyakUpdate(source, target, t) ==
  (t[1] * source + (t[2] - t[1]) * target) \div t[2]

\* ------------------------------------------------------- conservative loss

\* mutant of ConservativePrecondition: the assertion is missing
NoConservativePrecondition(n) == TRUE

\* assert n_critics == 1
ConservativePrecondition(n) == n = 1

\* mutant of ClippedAlpha: the exponential of the unclamped log_alpha
ClippedAlphaNoClamp(la) == ExpMicro(la)

\* clipped_alpha = self.log_alpha.clamp(-10.0, 2.0).exp()
ClippedAlpha(la) == ExpMicro(Clamp(la, ClampLo * Micro, ClampHi * Micro))

\* ------------------------------------------------------------------- train

\* mutant of EntCoefRead: the coefficient is re-read from log_ent_coef
EntCoefReadLive(local, log_now) == ExpMicro(log_now)

\* the entropy coefficient a loss of the running step reads: the local
\* ent_coef, a tensor of its own that th.exp produced
EntCoefRead(local, log_now) == local

\* mutant of SyncDue: the interval counted from one
SyncDueOffByOne(i, k) == (i + 1) % k = 0

\* gradient_step % self.target_update_interval == 0
SyncDue(i, k) == i % k = 0

\* mutant of ActorUpdateOptimizer: the actor section steps the critic's
ActorUpdateWrongOptimizer == CriticOptimizerParams

\* the optimizer the actor section of train zeroes and steps
ActorUpdateOptimizer == ActorOptimizerParams

\* one entry of step_ops: an operation of the running gradient step
Op(name) == [op |-> name, gap |-> 0]

\* the locals of a call are gone when it returns or raises
ResetTrainLocals ==
  /\ gradient_step' = 0
  /\ gradient_steps' = 0
  /\ ent_coef' = 0
  /\ clipped_alpha' = 0
  /\ step_ops' = << >>
  /\ sync_log' = {}
  /\ log_ent_coef_old' = 0
  /\ used_ent_coef' = << >>

ResetPretrainLocals ==
  /\ p_step' = 0
  /\ p_steps' = 0
  /\ p_interval' = 1
  /\ p_freq' = -1
  /\ p_index_ops' = << >>
  /\ p_log_ent_coef' = 0

\* an exception leaves train, and pretrain when it called train
Raise(e) ==
  /\ pc' = "idle"
  /\ raised' = e
  /\ caller' = "none"
  /\ ResetTrainLocals
  /\ ResetPretrainLocals

\* train(gradient_steps, batch_size): prologue
TrainCall(G) ==
  /\ pc = "idle"
  /\ pc' = "t_loop"
  /\ caller' = "none"
  /\ raised' = "none"
  /\ gradient_steps' = G
  /\ gradient_step' = 0
  /\ sync_log' = {}
  /\ step_ops' = << >>
  /\ UNCHANGED << cfg_vars, params, grads, replay_buffer_ent_coef,
                  pretrain_vars, ent_coef, clipped_alpha, since_sync,
                  log_ent_coef_old, used_ent_coef >>

\* loop head, replay sample, actor sample and the entropy coefficient
TrainSample ==
  /\ pc = "t_loop"
  /\ gradient_step < gradient_steps
  /\ ent_coef' = IF auto_ent_coef THEN ExpMicro(log_ent_coef)
                 ELSE ent_coef_tensor
  /\ replay_buffer_ent_coef' = ent_coef'
  /\ log_ent_coef_old' = log_ent_coef
  /\ step_ops' = << >>
  /\ used_ent_coef' = << >>
  /\ clipped_alpha' = 0
  /\ pc' = "t_ent_opt"
  /\ UNCHANGED << cfg_vars, params, grads, caller, gradient_step,
                  gradient_steps, pretrain_vars, raised, sync_log,
                  since_sync >>

\* the optimizer step of the entropy coefficient
TrainEntCoefOpt ==
  /\ pc = "t_ent_opt"
  /\ IF auto_ent_coef
     THEN LET g == Backward(ZeroGrad(grads, EntCoefOptimizerParams),
                            "ent_coef_loss", EntCoefLossLeaves)
          IN  /\ grads' = g
              /\ params' \in StepResults(params, g, EntCoefOptimizerParams)
              /\ step_ops' = Append(step_ops, Op("ent_coef_opt"))
     ELSE UNCHANGED << grads, params, step_ops >>
  /\ pc' = "t_critic_loss"
  /\ UNCHANGED << cfg_vars, replay_buffer_ent_coef, caller, gradient_step,
                  gradient_steps, pretrain_vars, ent_coef, clipped_alpha,
                  raised, sync_log, since_sync, log_ent_coef_old,
                  used_ent_coef >>

\* bootstrap target, critic loss and, with CQL, the conservative loss
TrainCriticLoss ==
  /\ pc = "t_critic_loss"
  /\ IF use_cql /\ ~ConservativePrecondition(n_critics)
     THEN Raise("AssertionError")
     ELSE /\ pc' = "t_critic_opt"
          /\ used_ent_coef' =
               Append(used_ent_coef, EntCoefRead(ent_coef, log_ent_coef))
          /\ clipped_alpha' = IF use_cql THEN ClippedAlpha(log_alpha)
                              ELSE clipped_alpha
          /\ step_ops' = IF use_cql THEN Append(step_ops, Op("cql_loss"))
                         ELSE step_ops
          /\ UNCHANGED << caller, raised, gradient_step, gradient_steps,
                          ent_coef, sync_log, log_ent_coef_old,
                          pretrain_vars >>
  /\ UNCHANGED << cfg_vars, params, grads, replay_buffer_ent_coef,
                  since_sync >>

\* the optimizer step of the critic
TrainCriticOpt ==
  /\ pc = "t_critic_opt"
  /\ LET g == Backward(ZeroGrad(grads, CriticOptimizerParams),
                       "critic_loss", CriticLossLeaves(use_cql))
     IN  /\ grads' = g
         /\ params' \in StepResults(params, g, CriticOptimizerParams)
  /\ step_ops' = Append(step_ops, Op("critic_opt"))
  /\ pc' = "t_actor"
  /\ UNCHANGED << cfg_vars, replay_buffer_ent_coef, caller, gradient_step,
                  gradient_steps, pretrain_vars, ent_coef, clipped_alpha,
                  raised, sync_log, since_sync, log_ent_coef_old,
                  used_ent_coef >>

\* actor loss and the optimizer step of the actor
TrainActor ==
  /\ pc = "t_actor"
  /\ used_ent_coef' =
       Append(used_ent_coef, EntCoefRead(ent_coef, log_ent_coef))
  /\ LET g == Backward(ZeroGrad(grads, ActorUpdateOptimizer),
                       "actor_loss", ActorLossLeaves)
     IN  /\ grads' = g
         /\ params' \in StepResults(params, g, ActorUpdateOptimizer)
  /\ step_ops' = Append(step_ops, Op("actor_opt"))
  /\ pc' = "t_alpha"
  /\ UNCHANGED << cfg_vars, replay_buffer_ent_coef, caller, gradient_step,
                  gradient_steps, pretrain_vars, ent_coef, clipped_alpha,
                  raised, sync_log, since_sync, log_ent_coef_old >>

\* update_alpha: conservative loss recomputed, then the alpha optimizer step
TrainAlpha ==
  /\ pc = "t_alpha"
  /\ IF ~use_cql
     THEN /\ pc' = "t_sync"
          /\ UNCHANGED << params, grads, local_vars, pretrain_vars, caller,
                          raised >>
     ELSE IF ~ConservativePrecondition(n_critics)
     THEN /\ Raise("AssertionError")
          /\ UNCHANGED << params, grads >>
     ELSE /\ pc' = "t_sync"
          /\ clipped_alpha' = ClippedAlpha(log_alpha)
          /\ LET g == Backward(ZeroGrad(grads, AlphaOptimizerParams),
                               "alpha_loss", ConservativeLossLeaves)
             IN  /\ grads' = g
                 /\ params' \in StepResults(params, g, AlphaOptimizerParams)
          /\ step_ops' =
               Append(Append(step_ops, Op("cql_loss")), Op("alpha_opt"))
          /\ UNCHANGED << caller, raised, gradient_step, gradient_steps,
                          ent_coef, sync_log, log_ent_coef_old,
                          used_ent_coef, pretrain_vars >>
  /\ UNCHANGED << cfg_vars, replay_buffer_ent_coef, since_sync >>

\* target network update and the end of the loop body
TrainSync ==
  /\ pc = "t_sync"
  /\ IF SyncDue(gradient_step, target_update_interval)
     THEN /\ params' = [params EXCEPT ![CriticTargetAlias] =
                          PolyakUpdate(critic, critic_target, tau)]
          /\ step_ops' =
               Append(step_ops,
                      [op |-> "polyak",
                       gap |-> IF since_sync < 0 THEN 0 ELSE since_sync + 1])
          /\ sync_log' = sync_log \cup {gradient_step}
          /\ since_sync' = 0
     ELSE /\ since_sync' = IF since_sync < 0 THEN since_sync
                           ELSE since_sync + 1
          /\ UNCHANGED << params, step_ops, sync_log >>
  /\ gradient_step' = gradient_step + 1
  /\ pc' = "t_loop"
  /\ UNCHANGED << cfg_vars, grads, replay_buffer_ent_coef, caller,
                  gradient_steps, pretrain_vars, ent_coef, clipped_alpha,
                  raised, log_ent_coef_old, used_ent_coef >>

\* the loop is exhausted: train returns
TrainReturn ==
  /\ pc = "t_loop"
  /\ gradient_step >= gradient_steps
  /\ pc' = IF caller = "pretrain" THEN "p_continue" ELSE "idle"
  /\ ResetTrainLocals
  /\ UNCHANGED << cfg_vars, params, grads, replay_buffer_ent_coef, caller,
                  pretrain_vars, raised, since_sync >>

\* ---------------------------------------------------------------- pretrain

\* mutant of HardCopy: the target is Polyak-averaged as in train
HardCopyAsPolyak(source, target) == PolyakUpdate(source, target, tau)

\* self.critic_target.load_state_dict(self.critic.state_dict())
HardCopy(source, target) == source

\* mutant of OnlineStepDue: the frequency counted from one
OnlineStepDueOffByOne(i, f) == f > 0 /\ (i + 1) % f = 0

\* off_policy_update_freq > 0 and gradient_step % off_policy_update_freq == 0
OnlineStepDue(i, f) == f > 0 /\ i % f = 0

\* gradient_step % target_update_interval == 0
HardCopyDue(i, k) == i % k = 0

\* pretrain(gradient_steps, .., target_update_interval, ..,
\*          off_policy_update_freq): prologue
PretrainCall(G, k, f) ==
  /\ pc = "idle"
  /\ pc' = "p_loop"
  /\ caller' = "none"
  /\ raised' = "none"
  /\ p_steps' = G
  /\ p_step' = 0
  /\ p_interval' = k
  /\ p_freq' = f
  /\ p_index_ops' = << >>
  /\ p_log_ent_coef' = log_ent_coef
  /\ UNCHANGED << cfg_vars, params, grads, replay_buffer_ent_coef,
                  local_vars, since_sync >>

\* loop head with an online step due: self.train(gradient_steps=1, ..)
PretrainOnlineStep ==
  /\ pc = "p_loop"
  /\ p_step < p_steps
  /\ OnlineStepDue(p_step, p_freq)
  /\ pc' = "t_loop"
  /\ caller' = "pretrain"
  /\ gradient_steps' = 1
  /\ gradient_step' = 0
  /\ sync_log' = {}
  /\ step_ops' = << >>
  /\ p_index_ops' = Append(p_index_ops, {"train"})
  /\ UNCHANGED << cfg_vars, params, grads, replay_buffer_ent_coef,
                  pretrain_frame, ent_coef, clipped_alpha, raised,
                  since_sync, log_ent_coef_old, used_ent_coef >>

\* the continue after the online step
PretrainContinue ==
  /\ pc = "p_continue"
  /\ pc' = "p_loop"
  /\ caller' = "none"
  /\ p_step' = p_step + 1
  /\ UNCHANGED << cfg_vars, params, grads, replay_buffer_ent_coef,
                  local_vars, p_steps, p_interval, p_freq, p_index_ops,
                  p_log_ent_coef, raised, since_sync >>

\* mutant of PretrainEntCoefStep: the entropy coefficient's optimizer steps
\* on ent_coef_loss as in train
PretrainEntCoefStepApplied(th, g) ==
  StepResults(th,
              Backward(ZeroGrad(g, EntCoefOptimizerParams), "ent_coef_loss",
                       EntCoefLossLeaves),
              EntCoefOptimizerParams)

\* what the entropy-coefficient section of a CRR step leaves in the
\* parameters: ent_coef_loss is computed, and no backward pass nor optimizer
\* step follows
PretrainEntCoefStep(th, g) == {th}

\* loop head of a CRR step: replay sample, actor sample, entropy coefficient
\* (its loss is computed and never stepped)
PretrainSample ==
  /\ pc = "p_loop"
  /\ p_step < p_steps
  /\ ~OnlineStepDue(p_step, p_freq)
  /\ ent_coef' = IF auto_ent_coef THEN ExpMicro(log_ent_coef)
                 ELSE ent_coef_tensor
  /\ replay_buffer_ent_coef' = ent_coef'
  /\ log_ent_coef_old' = log_ent_coef
  /\ step_ops' = << >>
  /\ used_ent_coef' = << >>
  /\ p_index_ops' = Append(p_index_ops, {})
  /\ params' \in PretrainEntCoefStep(params, grads)
  /\ pc' = "p_critic"
  /\ UNCHANGED << cfg_vars, grads, caller, gradient_step,
                  gradient_steps, pretrain_frame, clipped_alpha, raised,
                  sync_log, since_sync >>

\* bootstrap target, critic loss and the optimizer step of the critic
PretrainCritic ==
  /\ pc = "p_critic"
  /\ used_ent_coef' =
       Append(used_ent_coef, EntCoefRead(ent_coef, log_ent_coef))
  /\ LET g == Backward(ZeroGrad(grads, CriticOptimizerParams),
                       "critic_loss", CRRCriticLossLeaves)
     IN  /\ grads' = g
         /\ params' \in StepResults(params, g, CriticOptimizerParams)
  /\ step_ops' = Append(step_ops, Op("critic_opt"))
  /\ p_index_ops' = [p_index_ops EXCEPT ![Len(p_index_ops)] =
                       @ \cup {"crr_critic"}]
  /\ pc' = "p_actor"
  /\ UNCHANGED << cfg_vars, replay_buffer_ent_coef, caller, gradient_step,
                  gradient_steps, pretrain_frame, ent_coef, clipped_alpha,
                  raised, sync_log, since_sync, log_ent_coef_old >>

\* advantage weight, weighted regression loss, optimizer step of the actor
PretrainActor ==
  /\ pc = "p_actor"
  /\ LET g == Backward(ZeroGrad(grads, ActorOptimizerParams),
                       "actor_loss", CRRActorLossLeaves)
     IN  /\ grads' = g
         /\ params' \in StepResults(params, g, ActorOptimizerParams)
  /\ step_ops' = Append(step_ops, Op("actor_opt"))
  /\ p_index_ops' = [p_index_ops EXCEPT ![Len(p_index_ops)] =
                       @ \cup {"crr_actor"}]
  /\ pc' = "p_sync"
  /\ UNCHANGED << cfg_vars, replay_buffer_ent_coef, caller, gradient_step,
                  gradient_steps, pretrain_frame, ent_coef, clipped_alpha,
                  raised, sync_log, since_sync, log_ent_coef_old,
                  used_ent_coef >>

\* hard copy and the end of the loop body
PretrainSync ==
  /\ pc = "p_sync"
  /\ IF HardCopyDue(p_step, p_interval)
     THEN /\ params' = [params EXCEPT ![CriticTargetAlias] =
                          HardCopy(critic, critic_target)]
          /\ step_ops' = Append(step_ops, Op("hard_copy"))
     ELSE UNCHANGED << params, step_ops >>
  /\ p_step' = p_step + 1
  /\ pc' = "p_loop"
  /\ UNCHANGED << cfg_vars, grads, replay_buffer_ent_coef, caller,
                  gradient_step, gradient_steps, p_steps, p_interval, p_freq,
                  p_index_ops, p_log_ent_coef, ent_coef, clipped_alpha,
                  raised, sync_log, since_sync, log_ent_coef_old,
                  used_ent_coef >>

\* the loop is exhausted: pretrain returns
PretrainReturn ==
  /\ pc = "p_loop"
  /\ p_step >= p_steps
  /\ pc' = "idle"
  /\ ResetTrainLocals
  /\ ResetPretrainLocals
  /\ UNCHANGED << cfg_vars, params, grads, replay_buffer_ent_coef, caller,
                  raised, since_sync >>

\* ------------------------------------------------------------ specification

\* a float argument, and a string argument as its characters
FloatArg(n, d) == [kind |-> "float", chars |-> << >>, num |-> n, den |-> d]
StrArg(cs) == [kind |-> "str", chars |-> cs, num |-> 0, den |-> 1]
AutoStr == << "a", "u", "t", "o" >>

NoTargetIn ==
  [rewards |-> << >>, dones |-> << >>, targets |-> << >>,
   next_log_prob |-> << >>, gamma |-> <<"fin", 0>>]

\* no tensor (None), and no advantage computation under way
NoTensor == [rows |-> FALSE, v |-> << >>]
NoAdvantage ==
  /\ adv_in = [strategy |-> "bc", reduce |-> "mean", buffer |-> << >>,
               policy |-> << >>]
  /\ qf_buffer = NoTensor
  /\ qf_agg = NoTensor

\* the locals of train and pretrain before any call
InitLocals ==
  /\ grads = [p \in ParamNames |-> {}]
  /\ replay_buffer_ent_coef = 0
  /\ caller = "none"
  /\ gradient_step = 0
  /\ gradient_steps = 0
  /\ p_step = 0
  /\ p_steps = 0
  /\ p_interval = 1
  /\ p_freq = -1
  /\ p_index_ops = << >>
  /\ p_log_ent_coef = 0
  /\ ent_coef = 0
  /\ clipped_alpha = 0
  /\ raised = "none"
  /\ step_ops = << >>
  /\ sync_log = {}
  /\ since_sync = -1
  /\ log_ent_coef_old = 0
  /\ used_ent_coef = << >>

InitParams(c, le, la) ==
  params = [p \in ParamNames |->
              CASE p = "actor" -> 0
                [] p = "critic" -> c
                [] p = "critic_target" -> c
                [] p = "log_ent_coef" -> le
                [] p = "log_alpha" -> la]

\* the trainer after construction (_setup_model has run)
Init ==
  /\ target_update_interval \in 1..MaxInterval
  /\ use_cql \in BOOLEAN
  /\ n_critics \in CriticCounts
  /\ tau \in Taus
  /\ auto_ent_coef \in BOOLEAN
  /\ ent_coef_tensor \in (IF auto_ent_coef THEN {0} ELSE EntCoefTensorValues)
  /\ ent_coef_arg = (IF auto_ent_coef THEN StrArg(AutoStr)
                     ELSE FloatArg(ent_coef_tensor, Micro))
  /\ target_entropy_arg = StrArg(AutoStr)
  /\ target_entropy = -Micro
  /\ setup_result = "ok"
  /\ \E c \in ParamValues :
       InitParams(c, IF auto_ent_coef THEN LogFloor(Micro) ELSE 0,
                  IF use_cql THEN LogFloor(InitialAlpha) ELSE 0)
  /\ target_in = NoTargetIn
  /\ q_backup = << >>
  /\ NoAdvantage
  /\ pc = "idle"
  /\ InitLocals

Next ==
  \/ \E G \in 0..MaxSteps : TrainCall(G)
  \/ TrainSample
  \/ TrainEntCoefOpt
  \/ TrainCriticLoss
  \/ TrainCriticOpt
  \/ TrainActor
  \/ TrainAlpha
  \/ TrainSync
  \/ TrainReturn
  \/ \E G \in 0..MaxSteps, k \in 1..MaxInterval, f \in Freqs :
       PretrainCall(G, k, f)
  \/ PretrainOnlineStep
  \/ PretrainContinue
  \/ PretrainSample
  \/ PretrainCritic
  \/ PretrainActor
  \/ PretrainSync
  \/ PretrainReturn

Spec == Init /\ [][Next]_vars

\* ----------------------------------------------------- bootstrap target

\* rewards, values and coefficients of the target computation are fixed
\* point in hundredths
Centi == 100
MulC(a, b) == (a * b) \div Centi

MinOf(S) == CHOOSE m \in S : \A x \in S : m <= x
SeqRange(q) == { q[i] : i \in 1..Len(q) }

\* A float of the target computation: a finite value in hundredths, an
\* infinity with its sign, or NaN.
Fin(x) == << "fin", x >>
PosInf == << "inf", 1 >>
NegInf == << "inf", -1 >>
NaN == << "nan", 0 >>

IsFin(a) == a[1] = "fin"
IsNaN(a) == a[1] = "nan"
Sgn(a) == IF IsFin(a) THEN (IF a[2] > 0 THEN 1 ELSE IF a[2] < 0 THEN -1 ELSE 0)
          ELSE a[2]

\* float product: NaN propagates, and zero times an infinity is NaN
FMul(a, b) ==
  IF IsNaN(a) \/ IsNaN(b) THEN NaN
  ELSE IF IsFin(a) /\ IsFin(b) THEN Fin(MulC(a[2], b[2]))
  ELSE IF Sgn(a) = 0 \/ Sgn(b) = 0 THEN NaN
  ELSE << "inf", Sgn(a) * Sgn(b) >>

\* float sum: NaN propagates, and infinities of opposite sign add to NaN
FAdd(a, b) ==
  IF IsNaN(a) \/ IsNaN(b) THEN NaN
  ELSE IF IsFin(a) /\ IsFin(b) THEN Fin(a[2] + b[2])
  ELSE IF IsFin(a) THEN b
  ELSE IF IsFin(b) THEN a
  ELSE IF a = b THEN a ELSE NaN

FNeg(a) == IF IsNaN(a) THEN NaN ELSE << a[1], -a[2] >>
FSub(a, b) == FAdd(a, FNeg(b))

\* order of the floats that are not NaN
FLeq(a, b) ==
  \/ a = NegInf
  \/ b = PosInf
  \/ IsFin(a) /\ IsFin(b) /\ a[2] <= b[2]

\* th.min along a dimension: NaN if a NaN is among the values
FMin(S) ==
  IF \E x \in S : IsNaN(x) THEN NaN
  ELSE CHOOSE m \in S : \A x \in S : FLeq(m, x)

\* target_q: th.min over the target critics, minus ent_coef * next_log_prob
TargetQ(critic_values, coef, log_prob) ==
  FSub(FMin(SeqRange(critic_values)), FMul(coef, log_prob))

\* mutant of QBackup: the (1 - dones) mask is missing
QBackupNoMask(reward, done, g, target_q) == FAdd(reward, FMul(g, target_q))

\* q_backup = rewards + (1 - dones) * self.gamma * target_q, for one row
QBackup(reward, done, g, target_q) ==
  FAdd(reward, FMul(FMul(FSub(Fin(Centi), done), g), target_q))

\* largest batch explored
MaxBatch == 2

RewardValues == { Fin(0), Fin(100) }
DoneValues == { Fin(0), Fin(Centi) }
\* values a critic returns; the target critics may also return an infinity
CriticOutputs == {-500, 500}
TargetCriticOutputs == { Fin(x) : x \in CriticOutputs } \cup { PosInf }
LogProbValues == { Fin(-200), Fin(0) }
GammaValues == { Fin(0), Fin(99) }
\* values of self.ent_coef_tensor in the target computation, in millionths
EntCoefValues == { 0, 500000 }

\* the local ent_coef of the gradient step as a float of the target
\* computation: millionths to hundredths
TargetEntCoef == Fin(ent_coef \div (Micro \div Centi))

\* the with th.no_grad() block of train and of pretrain, on a whole batch
TargetValue ==
  /\ pc = "target"
  /\ q_backup' =
       [i \in 1..Len(target_in.rewards) |->
          QBackup(target_in.rewards[i], target_in.dones[i], target_in.gamma,
                  TargetQ(target_in.targets[i], TargetEntCoef,
                          target_in.next_log_prob[i]))]
  /\ pc' = "target_done"
  /\ UNCHANGED << setup_vars, target_in, advantage_vars,
                  target_update_interval, use_cql, n_critics, tau, auto_ent_coef, ent_coef_tensor, params,
                  grads, replay_buffer_ent_coef, caller, local_vars,
                  pretrain_vars, raised, since_sync >>

\* the locals of train inside its first gradient step, before the
\* with th.no_grad() block: ent_coef is self.ent_coef_tensor, and
\* replay_buffer.ent_coef holds the same value
TargetLocals ==
  /\ grads = [p \in ParamNames |-> {}]
  /\ replay_buffer_ent_coef = ent_coef_tensor
  /\ caller = "none"
  /\ gradient_step = 0
  /\ gradient_steps = 1
  /\ p_step = 0
  /\ p_steps = 0
  /\ p_interval = 1
  /\ p_freq = -1
  /\ p_index_ops = << >>
  /\ p_log_ent_coef = 0
  /\ ent_coef = ent_coef_tensor
  /\ clipped_alpha = 0
  /\ raised = "none"
  /\ step_ops = << >>
  /\ sync_log = {}
  /\ since_sync = -1
  /\ log_ent_coef_old = 0
  /\ used_ent_coef = << >>

\* a trainer with a fixed entropy coefficient inside a gradient step, with a
\* sampled batch, the target critics' outputs at the next observations and
\* the next actions' log-probabilities
TargetInit ==
  /\ target_update_interval = 1
  /\ use_cql = FALSE
  /\ n_critics \in CriticCounts
  /\ tau = <<1, 1>>
  /\ auto_ent_coef = FALSE
  /\ ent_coef_tensor \in EntCoefValues
  /\ ent_coef_arg = FloatArg(ent_coef_tensor, Micro)
  /\ target_entropy_arg = StrArg(AutoStr)
  /\ target_entropy = -Micro
  /\ setup_result = "ok"
  /\ InitParams(0, 0, 0)
  /\ \E b \in 1..MaxBatch :
       target_in \in
         [rewards : [1..b -> RewardValues],
          dones : [1..b -> DoneValues],
          targets : [1..b -> [1..n_critics -> TargetCriticOutputs]],
          next_log_prob : [1..b -> LogProbValues],
          gamma : GammaValues]
  /\ q_backup = << >>
  /\ NoAdvantage
  /\ pc = "target"
  /\ TargetLocals

TargetNext == TargetValue

SpecTarget == TargetInit /\ [][TargetNext]_vars

\* ------------------------------------------------------ CRR advantage

\* A tensor of shape (batch, 1) is [rows |-> TRUE, v |-> its column]; a
\* tensor with no dimension (one number) is [rows |-> FALSE, v |-> <<x>>].
Column(q) == [rows |-> TRUE, v |-> q]
Scalar(x) == [rows |-> FALSE, v |-> << x >>]

\* the value a tensor contributes to row r once broadcast against the batch
Row(t, r) == IF t.rows THEN t.v[r] ELSE t.v[1]

Min2(a, b) == IF a <= b THEN a ELSE b
Max2(a, b) == IF a >= b THEN a ELSE b

\* th.min(input, other), th.max(input, other) and + on tensors of one shape
PointwiseMin(a, b) ==
  [rows |-> a.rows, v |-> [i \in 1..Len(a.v) |-> Min2(a.v[i], b.v[i])]]
PointwiseMax(a, b) ==
  [rows |-> a.rows, v |-> [i \in 1..Len(a.v) |-> Max2(a.v[i], b.v[i])]]
PointwiseAdd(a, b) ==
  [rows |-> a.rows, v |-> [i \in 1..Len(a.v) |-> a.v[i] + b.v[i]]]
DivBy(a, n) == [rows |-> a.rows, v |-> [i \in 1..Len(a.v) |-> a.v[i] \div n]]

\* th.min(*qs), qs being the tuple the critic returns, one column per
\* ensemble member: with one tensor, th.min(input) is the minimum of all its
\* elements; with two, th.min(input, other) is the pointwise minimum; with
\* more, no overload of th.min takes the arguments
ThMinStar(qs) ==
  CASE Len(qs) = 1 -> [error |-> "none", t |-> Scalar(MinOf(SeqRange(qs[1])))]
    [] Len(qs) = 2 ->
         [error |-> "none",
          t |-> PointwiseMin(Column(qs[1]), Column(qs[2]))]
    [] OTHER -> [error |-> "TypeError", t |-> NoTensor]

\* qf_agg after the first m passes of the loop over n_action_samples = k
RECURSIVE QfAgg(_, _, _, _)
QfAgg(qf_pi, reduce, k, m) ==
  IF m = 1
  THEN IF reduce = "max" THEN qf_pi[1] ELSE DivBy(qf_pi[1], k)
  ELSE IF reduce = "max"
       THEN PointwiseMax(qf_pi[m], QfAgg(qf_pi, reduce, k, m - 1))
       ELSE PointwiseAdd(QfAgg(qf_pi, reduce, k, m - 1),
                         DivBy(qf_pi[m], k))

Strategies == {"bc", "binary"}
Reduces == {"mean", "max"}
AdvCriticCounts == {1, 2, 3}
BatchSizes == {1, 2}
SampleCounts == {1, 2}

\* the weight section of a CRR step up to the advantage: qf_buffer from the
\* critics at the batch's own actions, qf_agg from the critics at
\* n_action_samples actions of the policy
CRRAdvantage ==
  /\ pc = "advantage"
  /\ IF adv_in.strategy = "bc"
     THEN /\ pc' = "advantage_done"
          /\ UNCHANGED << qf_buffer, qf_agg, raised >>
     ELSE LET k == Len(adv_in.policy)
              buf == ThMinStar(adv_in.buffer)
              qf_pi == [s \in 1..k |-> ThMinStar(adv_in.policy[s]).t]
          IN  IF buf.error # "none"
              THEN /\ pc' = "advantage_failed"
                   /\ raised' = buf.error
                   /\ UNCHANGED << qf_buffer, qf_agg >>
              ELSE /\ pc' = "advantage_done"
                   /\ qf_buffer' = buf.t
                   /\ qf_agg' = QfAgg(qf_pi, adv_in.reduce, k, k)
                   /\ UNCHANGED raised
  /\ UNCHANGED << setup_vars, target_vars, adv_in, target_update_interval,
                  use_cql, n_critics, tau, auto_ent_coef, ent_coef_tensor,
                  params, grads, replay_buffer_ent_coef, caller, local_vars,
                  pretrain_vars, since_sync >>

\* a trainer inside a CRR step with the critics' outputs at hand; three
\* critics are explored on one row and one sample
AdvantageInit ==
  /\ target_update_interval = 1
  /\ use_cql = FALSE
  /\ n_critics \in AdvCriticCounts
  /\ tau = <<1, 1>>
  /\ auto_ent_coef = FALSE
  /\ ent_coef_tensor = 0
  /\ ent_coef_arg = FloatArg(0, Micro)
  /\ target_entropy_arg = StrArg(AutoStr)
  /\ target_entropy = -Micro
  /\ setup_result = "ok"
  /\ InitParams(0, 0, 0)
  /\ target_in = NoTargetIn
  /\ q_backup = << >>
  /\ \E b \in BatchSizes, k \in SampleCounts :
       /\ n_critics = 3 => (b = 1 /\ k = 1)
       /\ adv_in \in
            [strategy : Strategies,
             reduce : Reduces,
             buffer : [1..n_critics -> [1..b -> CriticOutputs]],
             policy : [1..k -> [1..n_critics -> [1..b -> CriticOutputs]]]]
  /\ qf_buffer = NoTensor
  /\ qf_agg = NoTensor
  /\ pc = "advantage"
  /\ InitLocals

AdvantageNext == CRRAdvantage

SpecAdvantage == AdvantageInit /\ [][AdvantageNext]_vars

\* ------------------------------------------------------------ _setup_model

\* characters the string arguments are made of
Digits == {"0", "1"}
TailChars == {"0", "1", ".", "-", "_", "x"}
AutoUnderscore == << "a", "u", "t", "o", "_" >>

\* str.startswith
StartsWith(cs, prefix) ==
  /\ Len(cs) >= Len(prefix)
  /\ SubSeq(cs, 1, Len(prefix)) = prefix

Positions(cs, c) == { i \in 1..Len(cs) : cs[i] = c }

\* s.split("_")[1]: the text between the first underscore and the next one
\* (or the end); used only when s holds an underscore
SplitSecond(cs) ==
  LET first == MinOf(Positions(cs, "_"))
      later == { i \in Positions(cs, "_") : i > first }
      stop == IF later = {} THEN Len(cs) + 1 ELSE MinOf(later)
  IN  SubSeq(cs, first + 1, stop - 1)

\* digits with single underscores between them, as float() accepts them
IsDigitPart(cs) ==
  /\ cs # << >>
  /\ cs[1] \in Digits
  /\ cs[Len(cs)] \in Digits
  /\ \A i \in 1..Len(cs) : cs[i] \in Digits \cup {"_"}
  /\ \A i \in 1..(Len(cs) - 1) : ~(cs[i] = "_" /\ cs[i + 1] = "_")

RECURSIVE DigitsValue(_)
DigitsValue(cs) ==
  IF cs = << >> THEN 0
  ELSE LET front == SubSeq(cs, 1, Len(cs) - 1)
           c == cs[Len(cs)]
       IN  IF c = "_" THEN DigitsValue(front)
           ELSE 10 * DigitsValue(front) + (IF c = "1" THEN 1 ELSE 0)

RECURSIVE Pow10(_)
Pow10(n) == IF n = 0 THEN 1 ELSE 10 * Pow10(n - 1)

\* float(str) on these characters: an optional minus sign, then digits with
\* an optional point, or a point followed by digits.  ok is FALSE where
\* float raises ValueError; the value is num / den.
ParseFloat(cs) ==
  LET neg == cs # << >> /\ cs[1] = "-"
      body == IF neg THEN Tail(cs) ELSE cs
      dots == Positions(body, ".")
      dot == IF dots = {} THEN Len(body) + 1 ELSE MinOf(dots)
      whole == SubSeq(body, 1, dot - 1)
      frac == SubSeq(body, dot + 1, Len(body))
      ok == /\ Cardinality(dots) <= 1
            /\ whole = << >> \/ IsDigitPart(whole)
            /\ frac = << >> \/ IsDigitPart(frac)
            /\ whole # << >> \/ frac # << >>
      k == Cardinality({ i \in 1..Len(frac) : frac[i] \in Digits })
      mag == DigitsValue(whole) * Pow10(k) + DigitsValue(frac)
  IN  IF ok
      THEN [ok |-> TRUE, num |-> IF neg THEN -mag ELSE mag, den |-> Pow10(k)]
      ELSE [ok |-> FALSE, num |-> 0, den |-> 1]

\* float(x) for an argument that is a float already or a string
ToFloat(arg) ==
  IF arg.kind = "float" THEN [ok |-> TRUE, num |-> arg.num, den |-> arg.den]
  ELSE ParseFloat(arg.chars)

\* a value num / den in millionths
ToMicro(v) == (v.num \div v.den) * Micro + (v.num % v.den) * (Micro \div v.den)

\* np.prod(self.env.action_space.shape) of the environments explored
ActionDims == {1, 2}

\* target entropy: "auto", or forced to float
ResolveTargetEntropy(arg, dim) ==
  IF arg.kind = "str" /\ arg.chars = AutoStr
  THEN [error |-> "none", value |-> -(dim * Micro)]
  ELSE LET v == ToFloat(arg)
       IN  IF v.ok THEN [error |-> "none", value |-> ToMicro(v)]
           ELSE [error |-> "ValueError", value |-> 0]

\* entropy coefficient: learned when the argument is a string that starts
\* with "auto", else forced to float
ResolveEntCoef(arg) ==
  IF arg.kind = "str" /\ StartsWith(arg.chars, AutoStr)
  THEN IF Positions(arg.chars, "_") # {}
       THEN LET v == ParseFloat(SplitSecond(arg.chars))
            IN  IF ~v.ok THEN [error |-> "ValueError", auto |-> TRUE,
                               value |-> 0]
                ELSE IF ~(v.num > 0)
                THEN [error |-> "AssertionError", auto |-> TRUE, value |-> 0]
                ELSE [error |-> "none", auto |-> TRUE, value |-> ToMicro(v)]
       ELSE [error |-> "none", auto |-> TRUE, value |-> Micro]
  ELSE LET v == ToFloat(arg)
       IN  IF v.ok THEN [error |-> "none", auto |-> FALSE,
                         value |-> ToMicro(v)]
           ELSE [error |-> "ValueError", auto |-> FALSE, value |-> 0]

\* _setup_model, called by the constructor
SetupModel ==
  /\ pc = "constructed"
  /\ \E dim \in ActionDims :
       LET te == ResolveTargetEntropy(target_entropy_arg, dim)
           ec == ResolveEntCoef(ent_coef_arg)
           error == IF te.error # "none" THEN te.error ELSE ec.error
       IN  IF error # "none"
           THEN /\ pc' = "failed"
                /\ setup_result' = error
                /\ target_entropy' = IF te.error = "none" THEN te.value
                                     ELSE target_entropy
                /\ UNCHANGED << auto_ent_coef, ent_coef_tensor, params >>
           ELSE /\ pc' = "idle"
                /\ setup_result' = "ok"
                /\ target_entropy' = te.value
                /\ auto_ent_coef' = ec.auto
                /\ ent_coef_tensor' = IF ec.auto THEN 0 ELSE ec.value
                /\ params' =
                     [params EXCEPT
                        !["log_ent_coef"] =
                          IF ec.auto THEN LogFloor(ec.value) ELSE 0,
                        !["log_alpha"] =
                          IF use_cql THEN LogFloor(InitialAlpha) ELSE 0]
  /\ replay_buffer_ent_coef' = 0
  /\ UNCHANGED << ent_coef_arg, target_entropy_arg, target_vars,
                  advantage_vars,
                  target_update_interval, use_cql, n_critics, tau, grads,
                  caller, local_vars, pretrain_vars, raised, since_sync >>

Tails(n) == UNION { [1..m -> TailChars] : m \in 0..n }

EntCoefArgs ==
  { StrArg(prefix \o t) :
      prefix \in { << >>, AutoStr, AutoUnderscore }, t \in Tails(3) }
  \cup { FloatArg(2, 10), FloatArg(0, 1), FloatArg(-1, 1) }

TargetEntropyArgs ==
  { StrArg(AutoStr) } \cup { StrArg(t) : t \in Tails(2) }
  \cup { FloatArg(-1, 1) }

\* the trainer inside its constructor, before _setup_model
SetupInit ==
  /\ ent_coef_arg \in EntCoefArgs
  /\ target_entropy_arg \in TargetEntropyArgs
  /\ setup_result = "pending"
  /\ target_entropy = (IF target_entropy_arg.kind = "float"
                       THEN ToMicro(target_entropy_arg) ELSE 0)
  /\ target_update_interval = 1
  /\ use_cql \in BOOLEAN
  /\ n_critics = 1
  /\ tau = <<1, 1>>
  /\ auto_ent_coef = FALSE
  /\ ent_coef_tensor = 0
  /\ InitParams(0, 0, 0)
  /\ target_in = NoTargetIn
  /\ q_backup = << >>
  /\ NoAdvantage
  /\ pc = "constructed"
  /\ InitLocals

\* the constructor, then the entry into the first train call
SetupNext ==
  \/ SetupModel
  \/ \E G \in 1..MaxSteps : TrainCall(G)

SpecSetup == SetupInit /\ [][SetupNext]_vars

\* ------------------------------------------------------------------ claims

OpsOf(name) == { i \in 1..Len(step_ops) : step_ops[i].op = name }
Did(name) == OpsOf(name) # {}
LastOp == IF step_ops = << >> THEN "none" ELSE step_ops[Len(step_ops)].op
TrainStepPcs ==
  {"t_ent_opt", "t_critic_loss", "t_critic_opt", "t_actor", "t_alpha", "t_sync"}
CRRStepPcs == {"p_critic", "p_actor", "p_sync"}

\* C1: within one train call the Polyak sync has run at exactly the
\* gradient-step indices below the current one that are multiples of
\* target_update_interval, and a sync comes after the critic and the actor
\* optimizer steps of its gradient step.
C1_SyncAtMultiples ==
  /\ sync_log =
       { i \in 0..(gradient_step - 1) : i % target_update_interval = 0 }
  /\ \A i \in OpsOf("polyak") :
       /\ \E j \in OpsOf("critic_opt") : j < i
       /\ \E j \in OpsOf("actor_opt") : j < i
  /\ pc \in TrainStepPcs => ~Did("polyak")

C1_Witness ==
  /\ pc = "t_loop"
  /\ gradient_steps = 3
  /\ gradient_step = 3
  /\ target_update_interval = 2
  /\ sync_log = {0, 2}
  /\ LastOp = "polyak"

\* C2: counted over all train calls, two consecutive Polyak syncs are exactly
\* target_update_interval gradient steps apart.
C2_SyncEveryInterval ==
  \A i \in OpsOf("polyak") :
    step_ops[i].gap > 0 => step_ops[i].gap = target_update_interval

\* C3: the target critic's parameters change only in the synchronization
\* step: the Polyak update of train or the hard copy of pretrain. No optimizer
\* step changes them and no backward pass leaves a gradient on them.
C3_TargetOnlySynced ==
  /\ [][critic_target' # critic_target =>
          \/ pc = "t_sync" /\ LastOp' = "polyak"
          \/ pc = "p_sync" /\ LastOp' = "hard_copy"]_vars
  /\ [](grads["critic_target"] = {})

C3_Witness ==
  /\ pc = "t_sync"
  /\ Did("ent_coef_opt") /\ Did("critic_opt") /\ Did("actor_opt")
  /\ Did("alpha_opt")
  /\ critic # critic_target

\* C4: the critic's parameters change only in the critic optimizer step; the
\* entropy-coefficient update, the actor update and the alpha update leave
\* them as they were, although their backward passes reach the critic.
C4_CriticOnlyCriticStep ==
  [][critic' # critic => pc \in {"t_critic_opt", "p_critic"}]_vars

C4_Witness ==
  /\ pc = "t_sync"
  /\ Did("ent_coef_opt") /\ Did("actor_opt") /\ Did("alpha_opt")
  /\ {"actor_loss", "alpha_loss"} \subseteq grads[CriticAlias]
  /\ critic # 0

\* C6: in auto mode the coefficient of a gradient step of train -- the one
\* its target value and its actor loss read and the one written to
\* replay_buffer.ent_coef -- is exp(log_ent_coef) as it was before that
\* step's entropy-coefficient optimizer step.
C6_PreUpdateCoefficient ==
  (auto_ent_coef /\ pc \in TrainStepPcs) =>
    /\ ent_coef = ExpMicro(log_ent_coef_old)
    /\ replay_buffer_ent_coef = ExpMicro(log_ent_coef_old)
    /\ \A i \in 1..Len(used_ent_coef) :
         used_ent_coef[i] = ExpMicro(log_ent_coef_old)
    /\ pc = "t_ent_opt" => log_ent_coef_old = log_ent_coef

C6_Witness ==
  /\ auto_ent_coef
  /\ pc = "t_alpha"
  /\ Len(used_ent_coef) = 2
  /\ log_ent_coef # log_ent_coef_old
  /\ gradient_step = 1

\* C8: with CQL and an ensemble of more than one critic the conservative
\* loss is never computed: the first attempt raises AssertionError, which
\* leaves train (and a pretrain that called it) before any critic, actor or
\* alpha step of that call.
C8_CqlNeedsOneCritic ==
  /\ []((use_cql /\ n_critics # 1) =>
          /\ ~Did("cql_loss")
          /\ clipped_alpha = 0
          /\ pc \notin {"t_critic_opt", "t_actor", "t_alpha", "t_sync"})
  /\ []((raised = "AssertionError") => pc = "idle")
  /\ [][(pc = "t_critic_loss" /\ use_cql /\ n_critics # 1) =>
          (raised' = "AssertionError" /\ pc' = "idle")]_vars

C8_Witness ==
  /\ use_cql
  /\ n_critics = 2
  /\ raised = "AssertionError"
  /\ pc = "idle"

\* C9 as claimed: in pretrain the target critic is an exact copy of the
\* critic at the end of every step whose index is a multiple of the
\* target_update_interval argument, and nothing Polyak-averages it during a
\* pretrain call.
C9_HardCopyEveryIndex ==
  /\ (pc = "p_loop" /\ p_step > 0 /\ (p_step - 1) % p_interval = 0) =>
       critic_target = critic
  /\ (pc \in CRRStepPcs \cup {"p_loop", "p_continue"} \/ caller = "pretrain")
       => ~Did("polyak")

\* C9 as amended: the above holds at the indices that are CRR steps; an
\* index with an online step due runs train(1), which Polyak-averages the
\* target and takes no hard copy.
C9_HardCopyAtCRRSteps ==
  /\ (/\ pc = "p_loop" /\ p_step > 0
      /\ (p_step - 1) % p_interval = 0
      /\ ~(p_freq > 0 /\ (p_step - 1) % p_freq = 0)) =>
       (critic_target = critic /\ LastOp = "hard_copy")
  /\ pc \in CRRStepPcs \cup {"p_loop", "p_continue"} => ~Did("polyak")
  /\ (caller = "pretrain" /\ pc = "t_loop" /\ gradient_step = 1) =>
       (LastOp = "polyak" /\ ~Did("hard_copy"))

C9_Witness ==
  /\ pc = "p_loop"
  /\ p_step = 2
  /\ p_freq = 2
  /\ p_interval = 1
  /\ LastOp = "hard_copy"
  /\ tau = <<1, 2>>
  /\ critic = 2

\* C10: the coefficient multiplied into the conservative loss lies in
\* [exp(-10), exp(2)] whatever the stored log_alpha is; log_alpha itself is
\* stored unclamped.
C10_ClippedAlphaRange ==
  Did("cql_loss") =>
    /\ clipped_alpha >= ExpMicro(ClampLo * Micro)
    /\ clipped_alpha <= ExpMicro(ClampHi * Micro)
    /\ clipped_alpha > 0

C10_Witness ==
  /\ pc = "t_critic_opt"
  /\ gradient_step = 1
  /\ log_alpha = 1000 * Micro
  /\ clipped_alpha = ExpMicro(ClampHi * Micro)

\* the target critics' values of row i are all finite
FiniteRow(i) ==
  /\ \A j \in 1..n_critics : IsFin(target_in.targets[i][j])
  /\ IsFin(target_in.next_log_prob[i])
  /\ IsFin(target_in.gamma)
  /\ IsFin(TargetEntCoef)
  /\ IsFin(target_in.rewards[i])

\* the discounted soft value of a row whose values are finite, in hundredths
SoftValue(i) ==
  (target_in.gamma[2] *
     (MinOf({ target_in.targets[i][j][2] : j \in 1..n_critics })
      - (TargetEntCoef[2] * target_in.next_log_prob[i][2])
          \div Centi)) \div Centi

\* C5 as claimed: a row with done = 1 has q_backup equal to its reward,
\* whatever gamma, the entropy coefficient, the target critics' values and
\* the next log-probability are.
C5_NoBootstrapWhenDone ==
  pc = "target_done" =>
    /\ Len(q_backup) = Len(target_in.rewards)
    /\ \A i \in 1..Len(q_backup) :
         target_in.dones[i] = Fin(Centi) => q_backup[i] = target_in.rewards[i]

\* C5 as amended: a row with done = 1 whose gamma, entropy coefficient,
\* target critics' values and next log-probability are finite has q_backup
\* equal to its reward; a finite row with done = 0 has the reward plus
\* gamma times (minimum over the target critics minus ent_coef *
\* next_log_prob); a row with done = 1 and an infinite minimum over the
\* target critics has q_backup NaN.
C5_NoBootstrapWhenDoneFinite ==
  pc = "target_done" =>
    /\ Len(q_backup) = Len(target_in.rewards)
    /\ \A i \in 1..Len(q_backup) :
         /\ (FiniteRow(i) /\ target_in.dones[i] = Fin(Centi)) =>
              q_backup[i] = target_in.rewards[i]
         /\ (FiniteRow(i) /\ target_in.dones[i] = Fin(0)) =>
              q_backup[i] = Fin(target_in.rewards[i][2] + SoftValue(i))
         /\ (target_in.dones[i] = Fin(Centi)
               /\ \A j \in 1..n_critics : target_in.targets[i][j] = PosInf) =>
              q_backup[i] = NaN

C5_Witness ==
  /\ pc = "target_done"
  /\ target_in.rewards = << Fin(100), Fin(0) >>
  /\ target_in.dones = << Fin(0), Fin(100) >>
  /\ target_in.gamma = Fin(99)
  /\ ent_coef_tensor = 0
  /\ ent_coef = 0
  /\ n_critics = 2
  /\ target_in.targets = << <<Fin(500), Fin(500)>>, <<Fin(500), Fin(500)>> >>
  /\ q_backup = << Fin(595), Fin(0) >>

IsAutoFloat(cs) ==
  /\ StartsWith(cs, AutoUnderscore)
  /\ ParseFloat(SubSeq(cs, 6, Len(cs))).ok

\* an ent_coef string that is not "auto", not "auto_<float>" and not a float,
\* or "auto_<float>" with a float that is not positive
EntCoefConfigError(arg) ==
  /\ arg.kind = "str"
  /\ \/ /\ arg.chars # AutoStr
        /\ ~IsAutoFloat(arg.chars)
        /\ ~ParseFloat(arg.chars).ok
     \/ /\ IsAutoFloat(arg.chars)
        /\ ParseFloat(SubSeq(arg.chars, 6, Len(arg.chars))).num <= 0

\* a target_entropy string that is not "auto" and not a float
TargetEntropyConfigError(arg) ==
  /\ arg.kind = "str"
  /\ arg.chars # AutoStr
  /\ ~ParseFloat(arg.chars).ok

\* C7: once _setup_model has run, every configuration error has made it
\* fail, so that no train call is entered with such a configuration.
C7_ConfigErrorsFailSetup ==
  (pc # "constructed" /\
   (EntCoefConfigError(ent_coef_arg)
      \/ TargetEntropyConfigError(target_entropy_arg))) =>
    (pc = "failed" /\ setup_result \in {"ValueError", "AssertionError"})

\* a pretrain call is under way (its loop, or the train call it made)
InPretrain ==
  pc \in {"p_loop", "p_continue", "p_critic", "p_actor", "p_sync"}
    \/ caller = "pretrain"

\* the updates pretrain's loop index i is to run under frequency f
IndexOps(i, f) ==
  IF f > 0 /\ i % f = 0 THEN {"train"} ELSE {"crr_critic", "crr_actor"}

\* C11: in pretrain with off_policy_update_freq = f, every finished loop
\* index i with f > 0 and i mod f = 0 ran one train(gradient_steps=1) call
\* and no CRR update, every other finished index ran the CRR critic and
\* actor updates and no train call (all of them when f <= 0), and the index
\* under way has run nothing but updates of its own kind.
C11_InterleaveAtMultiples ==
  InPretrain =>
    /\ Len(p_index_ops) \in {p_step, p_step + 1}
    /\ \A i \in 1..Len(p_index_ops) :
         IF i <= p_step
         THEN p_index_ops[i] = IndexOps(i - 1, p_freq)
         ELSE p_index_ops[i] \subseteq IndexOps(i - 1, p_freq)
    /\ caller = "pretrain" =>
         /\ p_freq > 0
         /\ p_step % p_freq = 0
         /\ pc = "p_continue" \/ gradient_steps = 1

C11_Witness ==
  /\ pc = "p_loop"
  /\ p_step = 3
  /\ p_freq = 2
  /\ p_index_ops = << {"train"}, {"crr_critic", "crr_actor"}, {"train"} >>

\* C12 as claimed: at the end of every pretrain call log_ent_coef equals its
\* value at the start of the call.
C12_EntCoefFrozenInPretrain ==
  (pc = "p_loop" /\ p_step >= p_steps) => log_ent_coef = p_log_ent_coef

\* C12 as amended: no CRR step of pretrain changes log_ent_coef, so that
\* throughout a pretrain call without interleaved online steps
\* (off_policy_update_freq <= 0), or with a fixed coefficient, log_ent_coef
\* equals its value at the start of the call; inside a pretrain call it
\* changes only in the entropy-coefficient optimizer step of an interleaved
\* train call.
C12_EntCoefFrozenInCRRSteps ==
  /\ [](InPretrain /\ (p_freq <= 0 \/ ~auto_ent_coef)
          => log_ent_coef = p_log_ent_coef)
  /\ [][InPretrain /\ log_ent_coef' # log_ent_coef
          => pc = "t_ent_opt" /\ caller = "pretrain"]_vars

C12_Witness ==
  /\ pc = "p_loop"
  /\ p_steps = 3
  /\ p_step = 3
  /\ p_freq = -1
  /\ auto_ent_coef
  /\ p_index_ops = [i \in 1..3 |-> {"crr_critic", "crr_actor"}]
  /\ log_ent_coef = p_log_ent_coef

\* the minimum over the critics of row r of their columns
RowMin(qs, r) == MinOf({ qs[c][r] : c \in 1..Len(qs) })

RECURSIVE SumTo(_, _)
SumTo(f, n) == IF n = 0 THEN 0 ELSE f[n] + SumTo(f, n - 1)

\* C13: with a strategy other than "bc", for every ensemble size the
\* advantage's terms are computed row by row: qf_buffer of a row is the
\* minimum over the critics of that row's value at the batch's own action,
\* and qf_agg of a row is the maximum (reduce "max") or the mean (otherwise)
\* over the policy samples of the minimum over the critics of that row's
\* value.
C13_AdvantagePerRow ==
  (pc \in {"advantage_done", "advantage_failed"}
     /\ adv_in.strategy # "bc") =>
    /\ pc = "advantage_done"
    /\ LET k == Len(adv_in.policy)
           mins(r) == [s \in 1..k |-> RowMin(adv_in.policy[s], r)]
       IN  \A r \in 1..Len(adv_in.buffer[1]) :
             /\ Row(qf_buffer, r) = RowMin(adv_in.buffer, r)
             /\ Row(qf_agg, r) =
                  IF adv_in.reduce = "max"
                  THEN CHOOSE x \in SeqRange(mins(r)) :
                         \A y \in SeqRange(mins(r)) : x >= y
                  ELSE SumTo([s \in 1..k |-> mins(r)[s] \div k], k)

\* the loss whose gradient the optimizer holding parameter p is to apply
OwnLoss(p) ==
  CASE p = "log_ent_coef" -> "ent_coef_loss"
    [] p = "critic" -> "critic_loss"
    [] p = "actor" -> "actor_loss"
    [] p = "log_alpha" -> "alpha_loss"
    [] OTHER -> "none"

\* the parameter stepped by the optimizer step taken from position at, if
\* that position holds an optimizer step that is applied
SteppedFrom(at) ==
  CASE at = "t_ent_opt" /\ auto_ent_coef -> {"log_ent_coef"}
    [] at \in {"t_critic_opt", "p_critic"} -> {"critic"}
    [] at \in {"t_actor", "p_actor"} -> {"actor"}
    [] at = "t_alpha" /\ use_cql /\ n_critics = 1 -> {"log_alpha"}
    [] OTHER -> {}

\* C14: in every gradient step of train and pretrain, the gradient buffer an
\* optimizer step applies holds the gradient of that optimizer's own loss
\* of the current step and of no other loss, and a parameter changes only
\* with such a buffer; the other losses' gradient (actor loss and alpha loss
\* in the critic, critic loss in log_alpha) is in the buffers and is zeroed
\* before it could be applied.
C14_OwnGradientOnly ==
  /\ [][\A p \in SteppedFrom(pc) : grads'[p] = {OwnLoss(p)}]_vars
  /\ [][\A p \in ParamNames \ {"critic_target"} :
          params'[p] # params[p] => grads'[p] = {OwnLoss(p)}]_vars

\* the critic optimizer has just stepped in the second gradient step of a
\* train call with CQL: the first step's actor and alpha losses had left
\* gradient in the critic, and log_alpha now holds the critic loss's
C14_Witness ==
  /\ pc = "t_actor"
  /\ gradient_step = 1
  /\ use_cql
  /\ LastOp = "critic_opt"
  /\ grads["critic"] = {"critic_loss"}
  /\ grads["log_alpha"] = {"alpha_loss", "critic_loss"}
  /\ grads["actor"] = {"actor_loss"}

====
